---- MODULE Spec2Model ----
(***************************************************************************)
(* Model of es_pii_extract_update.py: the scroll pagination client, the    *)
(* detector / normalisation pipeline, the report writer and the batched    *)
(* bulk updates of main().                                                 *)
(*                                                                         *)
(* Text is a sequence of characters; a character is a one-element string,  *)
(* or a name for a code point that has no ASCII form ("NBSP", "ENDASH").   *)
(***************************************************************************)
EXTENDS Integers, Sequences, FiniteSets, TLC

\* ------------------------------------------------------------ characters

\* UNICODE_DASHES: U+2010 .. U+2014
UNICODE_DASHES == {"HYPHEN2010", "NBHYPHEN", "FIGDASH", "ENDASH", "EMDASH"}

\* NBSP_SET: U+00A0, U+2007, U+202F, U+2009, U+200B
NBSP_SET == {"NBSP", "FIGSP", "NNBSP", "THINSP", "ZWSP"}

\* The characters of the class [ \t\r\f\v] of the last substitution.
HSPACE == {" ", "TAB", "CR", "FF", "VT"}

AsciiDigits == {"0", "1", "2", "3", "4", "5", "6", "7", "8", "9"}

\* Decimal digits of another script (category Nd): Arabic-Indic 1, 2, 3.
ArabicDigits == {"AR1", "AR2", "AR3"}

\* Characters for which str.isdigit() is true and int() raises (category No).
SuperDigits == {"SUP2"}

\* What \d matches in a str pattern: the category Nd.
IsNd(ch) == ch \in AsciiDigits \cup ArabicDigits

\* What \s matches: ASCII whitespace, and Unicode spaces such as U+2003.
IsSpace(ch) == ch \in HSPACE \cup {"NL", "EMSP", "NBSP", "FIGSP", "NNBSP", "THINSP"}

\* int(ch) of a decimal digit, as the ASCII character str(v).
DigitValue(ch) ==
    CASE ch = "AR1" -> "1"
      [] ch = "AR2" -> "2"
      [] ch = "AR3" -> "3"
      [] OTHER -> ch

\* ---------------------------------------------------------- normalisation

ReplaceIn(s, set, by) == [i \in 1..Len(s) |-> IF s[i] \in set THEN by ELSE s[i]]

\* re.sub(r"[ \t\r\f\v]+", " ", s): every maximal run becomes one space.
RECURSIVE CollapseRuns(_)
CollapseRuns(s) ==
    IF s = <<>> THEN <<>>
    ELSE IF Head(s) \in HSPACE
         THEN IF Len(s) > 1 /\ s[2] \in HSPACE
              THEN CollapseRuns(Tail(s))
              ELSE <<" ">> \o CollapseRuns(Tail(s))
         ELSE <<Head(s)>> \o CollapseRuns(Tail(s))

\* Mutant of normalize_separators: the runs are collapsed first.
normalize_separators_collapse_first(s) ==
    IF s = <<>> THEN s
    ELSE ReplaceIn(ReplaceIn(CollapseRuns(s), NBSP_SET, " "), UNICODE_DASHES, "-")

normalize_separators(s) ==
    IF s = <<>> THEN s
    ELSE CollapseRuns(ReplaceIn(ReplaceIn(s, NBSP_SET, " "), UNICODE_DASHES, "-"))

RECURSIVE unicode_digits_to_ascii(_)
unicode_digits_to_ascii(s) ==
    IF s = <<>> THEN <<>>
    ELSE LET ch == Head(s)
             rest == unicode_digits_to_ascii(Tail(s))
         IN  IF ch \in AsciiDigits \cup ArabicDigits \cup SuperDigits
             THEN IF ch \in SuperDigits THEN rest ELSE <<DigitValue(ch)>> \o rest
             ELSE rest

\* -------------------------------------------------------------- detectors

\* Mutant of nas_norm_fn: digits after the ninth are dropped.
nas_norm_fn_first_nine(s) ==
    LET digits == unicode_digits_to_ascii(s)
    IN  IF Len(digits) < 9 THEN <<>>
        ELSE SubSeq(digits, 1, 3) \o <<"-">> \o SubSeq(digits, 4, 6)
             \o <<"-">> \o SubSeq(digits, 7, 9)

\* _norm of make_nas_detector; <<>> stands for None.
nas_norm_fn(s) ==
    LET digits == unicode_digits_to_ascii(s)
    IN  IF Len(digits) # 9 THEN <<>>
        ELSE SubSeq(digits, 1, 3) \o <<"-">> \o SubSeq(digits, 4, 6)
             \o <<"-">> \o SubSeq(digits, 7, 9)

\* The class [\d\-\s_./] of the NAS pattern.
InNasClass(ch) == IsNd(ch) \/ IsSpace(ch) \/ ch \in {"-", "_", ".", "/"}

\* Number of characters of the class that follow position i, at most 24.
RECURSIVE ClassRun(_, _, _)
ClassRun(s, i, n) ==
    IF n < 24 /\ i + n + 1 <= Len(s) /\ InNasClass(s[i + n + 1])
    THEN ClassRun(s, i, n + 1) ELSE n

\* Length of the match of \d{9} at position i, 0 when there is none.
NineDigitsAt(s, i) ==
    IF i + 8 <= Len(s) /\ \A k \in i..(i + 8) : IsNd(s[k]) THEN 9 ELSE 0

\* Length of the match of (\d[\d\-\s_./]{7,24}\d)|(\d{9}) at position i, 0 when
\* there is none: the repetition is greedy and gives back characters until a
\* digit follows; the second alternative is tried when the first fails.
NasMatchAt(s, i) ==
    IF i > Len(s) \/ ~IsNd(s[i]) THEN 0
    ELSE LET run == ClassRun(s, i, 0)
             ok == {c \in 7..run : i + c + 1 <= Len(s) /\ IsNd(s[i + c + 1])}
         IN  IF ok # {} THEN (CHOOSE c \in ok : \A d \in ok : d <= c) + 2
             ELSE NineDigitsAt(s, i)

\* A compiled pattern is its kind: "nas" is the NAS pattern, "d9" is \d{9}.
MatchAt(pattern, s, i) ==
    CASE pattern = "nas" -> NasMatchAt(s, i)
      [] pattern = "d9" -> NineDigitsAt(s, i)
      [] OTHER -> 0

\* pattern.finditer(text): the non-overlapping matches, left to right.
RECURSIVE finditer(_, _, _)
finditer(pattern, s, i) ==
    IF i > Len(s) THEN <<>>
    ELSE LET n == MatchAt(pattern, s, i)
         IN  IF n = 0 THEN finditer(pattern, s, i + 1)
             ELSE <<SubSeq(s, i, i + n - 1)>> \o finditer(pattern, s, i + n)

\* Detector.find: the normalised, non-empty values of the matches.
RECURSIVE KeepValues(_, _)
KeepValues(det, raws) ==
    IF raws = <<>> THEN <<>>
    ELSE LET raw == Head(raws)
             val == IF det.normalizer = "nas" THEN nas_norm_fn(raw) ELSE raw
         IN  (IF val # <<>> THEN <<val>> ELSE <<>>) \o KeepValues(det, Tail(raws))

find(det, text) == KeepValues(det, finditer(det.pattern, text, 1))

make_nas_detector == [name |-> <<"N", "A", "S">>, pattern |-> "nas", normalizer |-> "nas"]

\* A detector of detectors.yaml: \d{9} with no normalizer.
yaml_detector == [name |-> <<"I", "D", "9">>, pattern |-> "d9", normalizer |-> "none"]

\* Mutant of PairsOf: the detectors are run last to first.
RECURSIVE PairsOf_reversed(_, _)
PairsOf_reversed(text, dets) ==
    IF dets = <<>> THEN <<>>
    ELSE LET vals == find(Head(dets), text)
         IN  PairsOf_reversed(text, Tail(dets))
             \o [k \in 1..Len(vals) |-> <<Head(dets).name, vals[k]>>]

RECURSIVE PairsOf(_, _)
PairsOf(text, dets) ==
    IF dets = <<>> THEN <<>>
    ELSE LET vals == find(Head(dets), text)
         IN  [k \in 1..Len(vals) |-> <<Head(dets).name, vals[k]>>]
             \o PairsOf(text, Tail(dets))

extract_from_text(text, dets) ==
    IF text = <<>> THEN <<>> ELSE PairsOf(normalize_separators(text), dets)

\* ------------------------------------------------------- source documents

\* A JSON value of a document: a string (its characters), null, or an object.
JStr(chars) == [t |-> "str", v |-> chars]
JNull == [t |-> "null", v |-> <<>>]
JDict(f) == [t |-> "dict", v |-> f]

\* str(x) of a string or of None.
Str(x) == IF x.t = "null" THEN <<"N", "o", "n", "e">> ELSE x.v

\* The truth value of x: None, "" and {} are false.
Truthy(x) ==
    CASE x.t = "null" -> FALSE
      [] x.t = "str" -> x.v # <<>>
      [] OTHER -> DOMAIN x.v # {}

\* The walk of a dotted path from the value cur; JNull when a part is missing.
RECURSIVE WalkPath(_, _)
WalkPath(cur, parts) ==
    IF parts = <<>> THEN cur
    ELSE IF cur.t = "dict" /\ Head(parts) \in DOMAIN cur.v
         THEN WalkPath(cur.v[Head(parts)], Tail(parts))
         ELSE JNull

\* Whether every part of the dotted path is found from cur.
RECURSIVE HasPath(_, _)
HasPath(cur, parts) ==
    parts = <<>>
    \/ /\ cur.t = "dict"
       /\ Head(parts) \in DOMAIN cur.v
       /\ HasPath(cur.v[Head(parts)], Tail(parts))

\* src is the _source object (a function of its keys); alt_field is the
\* dotted path already split, <<>> when no alternate field is given.
get_text_from_source(src, content_field, alt_field) ==
    IF content_field \in DOMAIN src /\ src[content_field].t # "null"
    THEN Str(src[content_field])
    ELSE IF alt_field # <<>> /\ Truthy(WalkPath(JDict(src), alt_field))
         THEN Str(WalkPath(JDict(src), alt_field))
         ELSE <<>>

get_path_virtual(src, path_field) ==
    IF HasPath(JDict(src), path_field)
    THEN Str(WalkPath(JDict(src), path_field))
    ELSE <<>>

\* ------------------------------------------------------------ field names

\* s.split(sep) of a character sequence: always at least one part.
RECURSIVE Split(_, _)
Split(s, sep) ==
    IF \A i \in 1..Len(s) : s[i] # sep THEN <<s>>
    ELSE LET k == CHOOSE i \in 1..Len(s) : s[i] = sep /\ \A j \in 1..(i - 1) : s[j] # sep
         IN  <<SubSeq(s, 1, k - 1)>> \o Split(SubSeq(s, k + 1, Len(s)), sep)

\* s.strip(): leading and trailing whitespace removed.
RECURSIVE Strip(_)
Strip(s) ==
    IF s = <<>> THEN s
    ELSE IF IsSpace(Head(s)) THEN Strip(Tail(s))
    ELSE IF IsSpace(s[Len(s)]) THEN Strip(SubSeq(s, 1, Len(s) - 1))
    ELSE s

\* A dict as the sequence of its <<key, value>> items in insertion order.
DictKeys(d) == {d[i][1] : i \in 1..Len(d)}
DictGet(d, k) == d[CHOOSE i \in 1..Len(d) : d[i][1] = k][2]
DictSet(d, k, val) ==
    IF k \in DictKeys(d)
    THEN [i \in 1..Len(d) |-> IF d[i][1] = k THEN <<k, val>> ELSE d[i]]
    ELSE Append(d, <<k, val>>)

RECURSIVE FieldMapOf(_, _)
FieldMapOf(parts, m) ==
    IF parts = <<>> THEN m
    ELSE LET part == Head(parts)
             eq == CHOOSE i \in 1..Len(part) : part[i] = "=" /\ \A j \in 1..(i - 1) : part[j] # "="
         IN  IF Strip(part) = <<>> \/ \A i \in 1..Len(part) : part[i] # "="
             THEN FieldMapOf(Tail(parts), m)
             ELSE FieldMapOf(Tail(parts),
                             DictSet(m, Strip(SubSeq(part, 1, eq - 1)),
                                     Strip(SubSeq(part, eq + 1, Len(part)))))

parse_field_map(s) == IF s = <<>> THEN <<>> ELSE FieldMapOf(Split(s, ","), <<>>)

\* str.lower() of one character, over the letters the names use.
LowerChar(ch) ==
    CASE ch = "A" -> "a" [] ch = "D" -> "d" [] ch = "I" -> "i"
      [] ch = "N" -> "n" [] ch = "S" -> "s" [] OTHER -> ch

\* Mutant of target_field: the special case comes before the explicit map.
target_field_special_first(detector_name, fm, prefix) ==
    LET field == ReplaceIn([i \in 1..Len(detector_name) |->
                               LowerChar(detector_name[i])], {" "}, "_")
    IN  IF field = <<"n", "a", "s">> THEN <<"n", "a", "s", "_", "n", "o", "r", "m">>
        ELSE IF detector_name \in DictKeys(fm) THEN DictGet(fm, detector_name)
        ELSE IF prefix # <<>> THEN prefix \o field ELSE field

target_field(detector_name, fm, prefix) ==
    IF detector_name \in DictKeys(fm) THEN DictGet(fm, detector_name)
    ELSE LET field == ReplaceIn([i \in 1..Len(detector_name) |->
                                    LowerChar(detector_name[i])], {" "}, "_")
         IN  IF field = <<"n", "a", "s">> THEN <<"n", "a", "s", "_", "n", "o", "r", "m">>
             ELSE IF prefix # <<>> THEN prefix \o field ELSE field

\* Mutant of GroupPairs: a value is appended even when the field has it.
RECURSIVE GroupPairs_no_dedupe(_, _, _, _)
GroupPairs_no_dedupe(pairs, fm, prefix, ftv) ==
    IF pairs = <<>> THEN ftv
    ELSE LET field == target_field(Head(pairs)[1], fm, prefix)
             cur == IF field \in DictKeys(ftv) THEN DictGet(ftv, field) ELSE <<>>
         IN  GroupPairs_no_dedupe(Tail(pairs), fm, prefix,
                                  DictSet(ftv, field, Append(cur, Head(pairs)[2])))

\* The grouping loop of main: field_to_values after the pairs of a document.
RECURSIVE GroupPairs(_, _, _, _)
GroupPairs(pairs, fm, prefix, ftv) ==
    IF pairs = <<>> THEN ftv
    ELSE LET field == target_field(Head(pairs)[1], fm, prefix)
             value == Head(pairs)[2]
             cur == IF field \in DictKeys(ftv) THEN DictGet(ftv, field) ELSE <<>>
             new == IF \E i \in 1..Len(cur) : cur[i] = value THEN cur
                    ELSE Append(cur, value)
         IN  GroupPairs(Tail(pairs), fm, prefix, DictSet(ftv, field, new))

\* params of the painless script: {"upd": field_to_values}.
build_update_script_params(field_to_values) == [upd |-> field_to_values]

\* ------------------------------------------------------------- the index

Chars_SIN == <<"S", "I", "N", " ", "1", "2", "3", " ", "4", "5", "6", " ",
               "7", "8", "9", " ", "h", "e", "r", "e">>
Chars_twice == <<"1", "2", "3", "4", "5", "6", "7", "8", "9", "a",
                 "1", "2", "3", "ENDASH", "4", "5", "6", "NBSP", "7", "8", "9">>
Chars_short == <<"n", "o", " ", "1", "2", "3", "-", "4", "5">>
Chars_other == <<"9", "8", "7", "6", "5", "4", "3", "2", "1">>
Chars_alt == <<"AR1", "AR1", "AR1", ".", "2", "2", "2", ".", "3", "3", "3">>
Path_ab == <<"/", "a", "/", "b">>
Path_c == <<"/", "c">>

\* The hits the store can return: each is the JSON object of one document.
\*   1  the document of the end-to-end scenario
\*   2  the same value at the same path, twice in the text, and also \d{9}
\*   3  no text field at all
\*   4  a finding, and no _id
\*   5  a text without any finding
\*   6  a null primary field and a text in attachment.content; no path
Hits ==
    << [_id |-> "1", _source |-> [content |-> JStr(Chars_SIN),
                                  path |-> JDict([virtual |-> JStr(Path_ab)])]],
       [_id |-> "2", _source |-> [content |-> JStr(Chars_twice),
                                  path |-> JDict([virtual |-> JStr(Path_ab)])]],
       [_id |-> "3", _source |-> [path |-> JDict([virtual |-> JStr(Path_c)])]],
       [_source |-> [content |-> JStr(Chars_other),
                     path |-> JDict([virtual |-> JStr(Path_c)])]],
       [_id |-> "5", _source |-> [content |-> JStr(Chars_short),
                                  path |-> JDict([virtual |-> JStr(Path_c)])]],
       [_id |-> "6", _source |-> [content |-> JNull,
                                  attachment |-> JDict([content |-> JStr(Chars_alt)])]] >>

\* The documents (positions of Hits) of the indexes a run is checked on.
IndexDocs == {{1, 2}, {3, 6}, {1, 4}, {2, 5}}

\* ----------------------------------------------------------------- bounds

\* Hits the store returns over a run, at most.
MaxDocs == 3
\* The same in the runs that check the batching of the updates.
MaxBatchDocs == 5
\* Search and scroll requests of a run, at most: the last one ends the scroll.
MaxRequests == 4
\* --batch-size: hits per page, at most.
PageSize == 2
\* --bulk-size is drawn from 1..MaxBulkSize.
MaxBulkSize == 2
\* Values of a stored list field, and of a field of an update, at most.
MaxListLen == 2
\* Times one update is applied to a stored document, at most.
MaxApply == 3

\* ------------------------------------------------------------- arguments

content_field == "content"
alt_content_field == <<"attachment", "content">>
path_field == <<"path", "virtual">>
field_prefix == <<"p", "i", "i", ".">>
\* --field-map "ID9=nas_norm"
FieldMapArg == <<"I", "D", "9", "=", "n", "a", "s", "_", "n", "o", "r", "m">>
retry_on_conflict == 3

\* detectors of main: the built-in one, then those of --detectors-yaml.
detectors == <<make_nas_detector>> \o <<yaml_detector>>

\* HTTP status codes the store answers with.
StatusCodes == {200, 302, 503}

\* requests' Response.raise_for_status(): raises for 4xx and 5xx.
RaisesForStatus(status) == 400 <= status /\ status < 600

CsvHeader == <<"detector", "value", "path", "doc_id">>

\* ------------------------------------------------- the update script

\* Mutant of AddValues: the value is added without the contains test.
AddValues_always(list, vals) == list \o vals

\* The list `list` after the inner loop of the script over vals:
\*   if (!ctx._source[f].contains(v)) { ctx._source[f].add(v); }
RECURSIVE AddValues(_, _)
AddValues(list, vals) ==
    IF vals = <<>> THEN list
    ELSE AddValues(IF \E i \in 1..Len(list) : list[i] = Head(vals)
                   THEN list ELSE Append(list, Head(vals)),
                   Tail(vals))

\* The painless script of build_update_script_params run on the stored
\* document `source` (a function of its list fields) with params.upd = up:
\* a field that is missing is created as an empty list.
RECURSIVE painless_update(_, _)
painless_update(source, up) ==
    IF up = <<>> THEN source
    ELSE LET f == Head(up)[1]
             vals == Head(up)[2]
             cur == IF f \in DOMAIN source THEN source[f] ELSE <<>>
         IN  painless_update([g \in DOMAIN source \cup {f} |->
                                 IF g = f THEN AddValues(cur, vals) ELSE source[g]],
                             Tail(up))

\* ------------------------------------------------------------------ state

VARIABLES
    detectors_yaml, \* what --detectors-yaml leads to: none, loaded, no_pyyaml, unparseable, missing
    registry,       \* main: the list `detectors`
    args,           \* the parsed arguments that vary: apply_updates, dedupe, bulk_size, field_map
    index,          \* the store: the documents of the index, and the hits a scroll returns at most
    fmap,           \* main: the detector -> field mapping
    pc,             \* where main is: search, yield, flush, final, done, aborted
    scroll_id,      \* search_scroll: the cursor token of the latest response, 0 for none
    hits,           \* search_scroll: the hit batch of the latest response
    pos,            \* search_scroll: hits of the batch already yielded
    out_open,       \* whether the report file is open
    csv,            \* the rows written to the report file
    seen_csv,       \* main: the dedupe keys seen
    bulk_lines,     \* main: the bulk buffer
    docs_count, pairs_count, updates_count,
    requests,       \* history: number of search and scroll requests issued
    last_req,       \* history: the latest request, [kind, token]
    http,           \* history: the latest response, [status, json, errors]
    returned,       \* history: the hits of every response, in order
    yielded,        \* history: the hits yielded by search_scroll
    built,          \* history: the bulk lines built
    sent,           \* history: the lines of every bulk request
    item_errors,    \* history: whether a bulk response has reported item errors
    stored,         \* the store: the list fields of one stored document
    stored0,        \* history: that document before the first update
    upd,            \* the store: params.upd of the update applied to it
    applied,        \* history: times the update has been applied
    call,           \* a call of one function of the module: its name and arguments
    result          \* history: what the call has returned, and what it returns on its result

runvars == <<detectors_yaml, registry, args, index, fmap, pc, scroll_id, hits, pos, out_open, csv, seen_csv, bulk_lines,
             docs_count, pairs_count, updates_count, requests, last_req, http, returned,
             yielded, built, sent, item_errors>>

storevars == <<stored, stored0, upd, applied>>

purevars == <<call, result>>

vars == <<runvars, storevars, purevars>>

\* What main reads of each hit, and the pairs its text gives.
HitId == [h \in DOMAIN Hits |-> IF "_id" \in DOMAIN Hits[h] THEN Hits[h]._id ELSE ""]
HitSource == [h \in DOMAIN Hits |->
                 IF "_source" \in DOMAIN Hits[h] THEN Hits[h]._source ELSE <<>>]
HitText == [h \in DOMAIN Hits |->
               get_text_from_source(HitSource[h], content_field, alt_content_field)]
HitPath == [h \in DOMAIN Hits |-> get_path_virtual(HitSource[h], path_field)]
\* The pairs of each hit under each list of detectors main can hold.
PairsWith ==
    [d \in {<<>>, <<make_nas_detector>>, detectors} |->
        [h \in DOMAIN Hits |-> extract_from_text(HitText[h], d)]]

HitPairs == PairsWith[registry]

\* -------------------------------------------------------------- the run

\* The state when main enters its loop, for arguments of A and an index of I:
\* arguments parsed, detectors loaded, the field map parsed, the report file
\* opened and its header row written.
InitRun(A, I) ==
    /\ detectors_yaml = "loaded"
    /\ registry = detectors
    /\ args \in A
    /\ index \in I
    /\ fmap = parse_field_map(args.field_map)
    /\ pc = "search"
    /\ scroll_id = 0
    /\ hits = <<>>
    /\ pos = 0
    /\ out_open = TRUE
    /\ csv = <<CsvHeader>>
    /\ seen_csv = {}
    /\ bulk_lines = <<>>
    /\ docs_count = 0
    /\ pairs_count = 0
    /\ updates_count = 0
    /\ requests = 0
    /\ last_req = [kind |-> "none", token |-> 0]
    /\ http = [status |-> 0, json |-> TRUE, errors |-> FALSE]
    /\ returned = <<>>
    /\ yielded = <<>>
    /\ built = <<>>
    /\ sent = <<>>
    /\ item_errors = FALSE

\* No function called by itself.
InitPureIdle ==
    /\ call = [fn |-> "none"]
    /\ result = <<>>

\* A stored document without list fields, and no update to apply to it.
InitStoreIdle ==
    /\ stored = <<>>
    /\ stored0 = <<>>
    /\ upd = <<>>
    /\ applied = 0

Init ==
    /\ InitRun([apply_updates : BOOLEAN, dedupe : BOOLEAN,
                bulk_size : 1..MaxBulkSize, field_map : {<<>>, FieldMapArg}],
               [docs : IndexDocs, total : {MaxDocs}])
    /\ InitStoreIdle
    /\ InitPureIdle

\* The hit batches a response can carry: at most PageSize documents of the
\* index, and at most index.total over the run.
Batches ==
    UNION {[1..n -> index.docs] : n \in 0..(IF index.total - Len(returned) < PageSize
                                            THEN index.total - Len(returned) ELSE PageSize)}

\* The responses of the store to the n-th search / scroll request. A response
\* with hits and a token is followed by another request, so the store gives
\* none to the last request it is modelled to answer. "json" tells whether
\* the body parses as JSON, which the body of a 200 does; the body of an
\* error is not read. The token of a response is new.
SearchResponses(n) ==
    {r \in [status : StatusCodes, json : BOOLEAN, hits : Batches, scroll_id : {0, n}] :
        /\ (n >= MaxRequests => r.hits = <<>> \/ r.scroll_id = 0)
        /\ (RaisesForStatus(r.status) \/ ~r.json => r.hits = <<>> /\ r.scroll_id = 0)
        /\ (r.status = 200 \/ RaisesForStatus(r.status) => r.json)}

\* The exception leaves main through its finally clause, which closes the file.
Abort ==
    /\ pc' = "aborted"
    /\ out_open' = FALSE

\* search_scroll: whether it raises on response r, by r.raise_for_status() or
\* by r.json() on a body that is no JSON.
SearchRaises(r) == RaisesForStatus(r.status) \/ ~r.json

\* The code of search_scroll after a request: the scroll id and the hits of
\* the body, when nothing is raised.
Receive(r) ==
    /\ http' = [status |-> r.status, json |-> r.json, errors |-> FALSE]
    /\ IF SearchRaises(r)
       THEN Abort /\ UNCHANGED <<scroll_id, hits, pos, returned>>
       ELSE /\ scroll_id' = r.scroll_id
            /\ hits' = r.hits
            /\ pos' = 0
            /\ returned' = returned \o r.hits
            /\ pc' = "yield"
            /\ UNCHANGED out_open

\* Mutant of ScrollEnds: the loop is left only without hits and without token.
ScrollEnds_both(h, token) == h = <<>> /\ token = 0

\* search_scroll: the test that leaves its while loop.
ScrollEnds(h, token) == h = <<>> \/ token = 0

\* search_scroll up to its first response: POST /<index>/_search?scroll=2m.
Search ==
    /\ pc = "search"
    /\ requests' = requests + 1
    /\ last_req' = [kind |-> "search", token |-> 0]
    /\ \E r \in SearchResponses(requests + 1) : Receive(r)
    /\ UNCHANGED <<storevars, purevars>>
    /\ UNCHANGED <<detectors_yaml, registry, args, index, fmap, csv, seen_csv, bulk_lines, docs_count, pairs_count,
                   updates_count, yielded, built, sent, item_errors>>

\* Mutant of Scroll: the next page is asked for while the flush that the
\* last hit of the page has triggered is still to be made.
Scroll_before_flush ==
    /\ pc \in {"yield", "flush"}
    /\ pos = Len(hits)
    /\ ~ScrollEnds(hits, scroll_id)
    /\ requests' = requests + 1
    /\ last_req' = [kind |-> "scroll", token |-> scroll_id]
    /\ \E r \in SearchResponses(requests + 1) : Receive(r)
    /\ UNCHANGED <<storevars, purevars>>
    /\ UNCHANGED <<detectors_yaml, registry, args, index, fmap, csv, seen_csv, bulk_lines, docs_count, pairs_count,
                   updates_count, yielded, built, sent, item_errors>>

\* search_scroll when main asks for a hit and the batch is exhausted, with a
\* non-empty batch and a token: POST /_search/scroll with the token.
Scroll ==
    /\ pc = "yield"
    /\ pos = Len(hits)
    /\ ~ScrollEnds(hits, scroll_id)
    /\ requests' = requests + 1
    /\ last_req' = [kind |-> "scroll", token |-> scroll_id]
    /\ \E r \in SearchResponses(requests + 1) : Receive(r)
    /\ UNCHANGED <<storevars, purevars>>
    /\ UNCHANGED <<detectors_yaml, registry, args, index, fmap, csv, seen_csv, bulk_lines, docs_count, pairs_count,
                   updates_count, yielded, built, sent, item_errors>>

\* Mutant of EndScroll: a batch that came without token is not yielded.
EndScroll_without_token ==
    /\ pc = "yield"
    /\ pos = Len(hits) \/ scroll_id = 0
    /\ ScrollEnds(hits, scroll_id)
    /\ pc' = "final"
    /\ UNCHANGED <<storevars, purevars>>
    /\ UNCHANGED <<detectors_yaml, registry, args, index, fmap, scroll_id, hits, pos, out_open, csv, seen_csv,
                   bulk_lines, docs_count, pairs_count, updates_count, requests, last_req,
                   http, returned, yielded, built, sent, item_errors>>

\* search_scroll when the batch is exhausted and it is empty or there is no
\* token: the generator ends, and main leaves its loop.
EndScroll ==
    /\ pc = "yield"
    /\ pos = Len(hits)
    /\ ScrollEnds(hits, scroll_id)
    /\ pc' = "final"
    /\ UNCHANGED <<storevars, purevars>>
    /\ UNCHANGED <<detectors_yaml, registry, args, index, fmap, scroll_id, hits, pos, out_open, csv, seen_csv,
                   bulk_lines, docs_count, pairs_count, updates_count, requests, last_req,
                   http, returned, yielded, built, sent, item_errors>>

\* Mutant of DedupeKey: the key holds the document id too.
DedupeKey_with_id(det_name, value, path, id) == <<det_name, value, path, id>>

\* The dedupe key of a row.
DedupeKey(det_name, value, path, id) == <<det_name, value, path>>

\* The CSV loop of main over the pairs of one document: the rows written, the
\* keys seen and the rows counted, from st = [csv, seen, count].
RECURSIVE WriteRows(_, _, _, _, _)
WriteRows(pairs, path, id, dedupe, st) ==
    IF pairs = <<>> THEN st
    ELSE LET det_name == Head(pairs)[1]
             value == Head(pairs)[2]
             row == <<det_name, value, path, id>>
             key == DedupeKey(det_name, value, path, id)
         IN  IF dedupe /\ key \in st.seen
             THEN WriteRows(Tail(pairs), path, id, dedupe, st)
             ELSE WriteRows(Tail(pairs), path, id, dedupe,
                            [csv |-> Append(st.csv, row),
                             seen |-> IF dedupe THEN st.seen \cup {key} ELSE st.seen,
                             count |-> st.count + 1])

\* Mutant of UpdatePairs: with --dedupe, only the pairs whose row is new.
UpdatePairs_unseen(pairs, path, dedupe, seen) ==
    IF dedupe
    THEN SelectSeq(pairs, LAMBDA pr : DedupeKey(pr[1], pr[2], path, "") \notin seen)
    ELSE pairs

\* The pairs main groups into the update of a document: all of `pairs`,
\* whatever rows --dedupe has left out.
UpdatePairs(pairs, path, dedupe, seen) == pairs

\* The two bulk lines of the update of document id: the action header and the
\* body with the script parameters.
UpdateLines(id, field_to_values) ==
    << [update |-> [_id |-> id, retry_on_conflict |-> retry_on_conflict]],
       [script |-> [lang |-> "painless",
                    params |-> build_update_script_params(field_to_values)]] >>

\* Mutant of UpdateWanted: --apply-updates is not looked at.
UpdateWanted_always(apply_updates, pairs, field_to_values, id) ==
    pairs # <<>> /\ field_to_values # <<>> /\ id # ""

\* The tests of main that lead to an update of the document: --apply-updates
\* and pairs, a non-empty field_to_values, and an _id.
UpdateWanted(apply_updates, pairs, field_to_values, id) ==
    apply_updates /\ pairs # <<>> /\ field_to_values # <<>> /\ id # ""

\* Mutant of FlushDue: the comparison is strict.
FlushDue_strict(lines, bulk_size) == Len(lines) \div 2 > bulk_size

\* Whether main flushes after appending to a buffer that now holds `lines`.
FlushDue(lines, bulk_size) == Len(lines) \div 2 >= bulk_size

\* Mutant of SkipHit: break instead of continue.
SkipHit_breaks ==
    /\ pc' = "final"
    /\ UNCHANGED <<csv, seen_csv, pairs_count, bulk_lines, updates_count, built>>

\* main on a hit without text: continue.
SkipHit ==
    /\ pc' = "yield"
    /\ UNCHANGED <<csv, seen_csv, pairs_count, bulk_lines, updates_count, built>>

\* The body of the loop of main for the next hit of search_scroll, up to the
\* flush it may call.
ProcessHit ==
    /\ pc = "yield"
    /\ pos < Len(hits)
    /\ LET h == hits[pos + 1]
           id == HitId[h]
           text == HitText[h]
           path == HitPath[h]
           pairs == HitPairs[h]
           st == WriteRows(pairs, path, id, args.dedupe,
                           [csv |-> csv, seen |-> seen_csv, count |-> pairs_count])
           field_to_values == GroupPairs(UpdatePairs(pairs, path, args.dedupe, seen_csv),
                                         fmap, field_prefix, <<>>)
           lines == UpdateLines(id, field_to_values)
       IN  /\ pos' = pos + 1
           /\ yielded' = Append(yielded, h)
           /\ docs_count' = docs_count + 1
           /\ IF text = <<>>
              THEN SkipHit
              ELSE /\ csv' = st.csv
                   /\ seen_csv' = st.seen
                   /\ pairs_count' = st.count
                   /\ IF UpdateWanted(args.apply_updates, pairs, field_to_values, id)
                      THEN /\ bulk_lines' = bulk_lines \o lines
                           /\ built' = built \o lines
                           /\ updates_count' = updates_count + 1
                           /\ pc' = IF FlushDue(bulk_lines', args.bulk_size)
                                    THEN "flush" ELSE "yield"
                      ELSE /\ pc' = "yield"
                           /\ UNCHANGED <<bulk_lines, updates_count, built>>
    /\ UNCHANGED <<storevars, purevars>>
    /\ UNCHANGED <<detectors_yaml, registry, args, index, fmap, scroll_id, hits, out_open, requests, last_req, http,
                   returned, sent, item_errors>>

\* The responses of the store to a bulk request; "errors" is the flag of the
\* body of a 200 that reports per-item errors.
BulkResponses ==
    {r \in [status : StatusCodes, json : BOOLEAN, errors : BOOLEAN] :
        /\ (r.status # 200 => ~r.errors)
        /\ (r.status = 200 \/ RaisesForStatus(r.status) => r.json)}

\* Mutant of BulkRaises: item errors raise too.
BulkRaises_on_item_errors(r) == RaisesForStatus(r.status) \/ ~r.json \/ r.errors

\* ESClient.bulk: whether it raises on response r, by raise_for_status under
\* the test r.status_code >= 400, or by r.json() on a body that is no JSON.
\* A body that reports item errors is printed and returned.
BulkRaises(r) == (r.status >= 400 /\ RaisesForStatus(r.status)) \/ ~r.json

\* flush_bulk: the buffer after ESClient.bulk has returned.
ClearedBuffer(lines) == <<>>

\* flush_bulk, then main at `next`: nothing is sent for an empty buffer.
flush_bulk(next) ==
    IF bulk_lines = <<>>
    THEN /\ pc' = next
         /\ out_open' = (next # "done" /\ out_open)
         /\ UNCHANGED <<bulk_lines, sent, http, item_errors, last_req>>
    ELSE \E r \in BulkResponses :
            /\ sent' = Append(sent, bulk_lines)
            /\ last_req' = [kind |-> "bulk", token |-> 0]
            /\ http' = r
            /\ item_errors' = (item_errors \/ r.errors)
            /\ IF BulkRaises(r)
               THEN Abort /\ UNCHANGED bulk_lines
               ELSE /\ bulk_lines' = ClearedBuffer(bulk_lines)
                    /\ pc' = next
                    /\ out_open' = (next # "done" /\ out_open)

\* The flush of the loop of main, when the buffer has reached --bulk-size.
FlushInLoop ==
    /\ pc = "flush"
    /\ flush_bulk("yield")
    /\ UNCHANGED <<storevars, purevars>>
    /\ UNCHANGED <<detectors_yaml, registry, args, index, fmap, scroll_id, hits, pos, csv, seen_csv, docs_count,
                   pairs_count, updates_count, requests, returned, yielded, built>>

\* Mutant of Finish: the final flush is forgotten.
Finish_without_flush ==
    /\ pc = "final"
    /\ pc' = "done"
    /\ out_open' = FALSE
    /\ UNCHANGED <<bulk_lines, sent, http, item_errors, last_req>>
    /\ UNCHANGED <<storevars, purevars>>
    /\ UNCHANGED <<detectors_yaml, registry, args, index, fmap, scroll_id, hits, pos, csv, seen_csv, docs_count,
                   pairs_count, updates_count, requests, returned, yielded, built>>

\* main after its loop: the final flush when --apply-updates is given, the
\* finally clause that closes the report file, and the summary.
Finish ==
    /\ pc = "final"
    /\ IF args.apply_updates
       THEN flush_bulk("done")
       ELSE /\ pc' = "done"
            /\ out_open' = FALSE
            /\ UNCHANGED <<bulk_lines, sent, http, item_errors, last_req>>
    /\ UNCHANGED <<storevars, purevars>>
    /\ UNCHANGED <<detectors_yaml, registry, args, index, fmap, scroll_id, hits, pos, csv, seen_csv, docs_count,
                   pairs_count, updates_count, requests, returned, yielded, built>>

Next == Search \/ Scroll \/ EndScroll \/ ProcessHit \/ FlushInLoop \/ Finish

Spec == Init /\ [][Next]_vars

\* Runs that check the batching: updates applied, one document that gives an
\* update and one that gives none, and more hits.
InitBatch ==
    /\ InitRun([apply_updates : {TRUE}, dedupe : {FALSE},
                bulk_size : 1..MaxBulkSize, field_map : {<<>>}],
               [docs : {{1, 3}}, total : {MaxBatchDocs}])
    /\ InitStoreIdle
    /\ InitPureIdle

SpecBatch == InitBatch /\ [][Next]_vars

\* Runs that end: main takes its next step whenever it has one.
InitScroll ==
    /\ InitRun([apply_updates : BOOLEAN, dedupe : {FALSE},
                bulk_size : {1}, field_map : {<<>>}],
               [docs : {{3, 6}}, total : {MaxDocs}])
    /\ InitStoreIdle
    /\ InitPureIdle

SpecFair == InitScroll /\ [][Next]_vars /\ WF_vars(Next)

\* ------------------------------------------------ loading the detectors

\* What --detectors-yaml can lead to: the option is not given; the file is
\* loaded; PyYAML cannot be imported; the file is not valid YAML, or an item
\* of it has no name or regex, or its regex does not compile; the file cannot
\* be opened.
YamlOutcomes == {"none", "loaded", "no_pyyaml", "unparseable", "missing"}

\* load_detectors_from_yaml: only the failed import of yaml is caught; the
\* exceptions of open, yaml.safe_load, item["name"], item["regex"] and
\* re.compile leave the function.
load_detectors_from_yaml(outcome) ==
    CASE outcome = "loaded" -> [raises |-> FALSE, detectors |-> <<yaml_detector>>]
      [] outcome = "no_pyyaml" -> [raises |-> FALSE, detectors |-> <<>>]
      [] OTHER -> [raises |-> TRUE, detectors |-> <<>>]

\* The state of main after parse_args, for outcomes of Y, arguments of A and
\* an index of I: nothing loaded, the report file not opened yet. pc is
\* "load", or "off" when main is not run at all.
InitMain(Y, A, I, P) ==
    /\ detectors_yaml \in Y
    /\ registry = <<>>
    /\ args \in A
    /\ index \in I
    /\ fmap = <<>>
    /\ pc \in P
    /\ scroll_id = 0
    /\ hits = <<>>
    /\ pos = 0
    /\ out_open = FALSE
    /\ csv = <<>>
    /\ seen_csv = {}
    /\ bulk_lines = <<>>
    /\ docs_count = 0
    /\ pairs_count = 0
    /\ updates_count = 0
    /\ requests = 0
    /\ last_req = [kind |-> "none", token |-> 0]
    /\ http = [status |-> 0, json |-> TRUE, errors |-> FALSE]
    /\ returned = <<>>
    /\ yielded = <<>>
    /\ built = <<>>
    /\ sent = <<>>
    /\ item_errors = FALSE

InitLoad ==
    /\ InitMain(YamlOutcomes,
                [apply_updates : BOOLEAN, dedupe : {FALSE},
                 bulk_size : {1}, field_map : {<<>>}],
                [docs : {{1, 2}}, total : {PageSize}], {"load"})
    /\ InitStoreIdle
    /\ InitPureIdle

\* main from the detectors to the header row of the report: the built-in
\* detector first, then those of the file; an exception of the load leaves
\* main before the report file is opened.
LoadDetectors ==
    /\ pc = "load"
    /\ LET loaded == IF detectors_yaml = "none"
                     THEN [raises |-> FALSE, detectors |-> <<>>]
                     ELSE load_detectors_from_yaml(detectors_yaml)
       IN  IF loaded.raises
           THEN /\ registry' = <<make_nas_detector>>
                /\ pc' = "aborted"
                /\ UNCHANGED <<fmap, out_open, csv>>
           ELSE /\ registry' = <<make_nas_detector>> \o loaded.detectors
                /\ fmap' = parse_field_map(args.field_map)
                /\ out_open' = TRUE
                /\ csv' = <<CsvHeader>>
                /\ pc' = "search"
    /\ UNCHANGED <<detectors_yaml, args, index, scroll_id, hits, pos, seen_csv, bulk_lines,
                   docs_count, pairs_count, updates_count, requests, last_req, http,
                   returned, yielded, built, sent, item_errors>>
    /\ UNCHANGED <<storevars, purevars>>

NextLoad == LoadDetectors \/ Next

SpecLoad == InitLoad /\ [][NextLoad]_vars

\* ------------------------------------------ the store applying an update

StoredFields == {<<"f">>, <<"g">>}
StoredValues == {"a", "b"}

\* The lists of at most MaxListLen values.
ValueLists == UNION {[1..n -> StoredValues] : n \in 0..MaxListLen}

\* The stored documents: each field is missing or holds a list.
StoredDocs == UNION {[F -> ValueLists] : F \in SUBSET StoredFields}

\* The params.upd of an update: one or two fields, each with its values.
Updates ==
    {<<<<f, vs>>>> : f \in StoredFields, vs \in ValueLists \ {<<>>}}
    \cup {u \in {<<<<f, vs>>, <<g, ws>>>> :
                    f \in StoredFields, g \in StoredFields,
                    vs \in ValueLists \ {<<>>}, ws \in ValueLists \ {<<>>}} :
            u[1][1] # u[2][1]}

InitStore ==
    /\ InitRun([apply_updates : {TRUE}, dedupe : {FALSE},
                bulk_size : {1}, field_map : {<<>>}],
               [docs : {{1}}, total : {0}])
    /\ stored \in StoredDocs
    /\ stored0 = stored
    /\ upd \in Updates
    /\ applied = 0
    /\ InitPureIdle

\* The store runs the script of the update on the stored document: the first
\* time, and again on a re-run or on a retry after a version conflict.
ApplyUpdate ==
    /\ applied < MaxApply
    /\ stored' = painless_update(stored, upd)
    /\ applied' = applied + 1
    /\ UNCHANGED <<stored0, upd, runvars, purevars>>

SpecStore == InitStore /\ [][ApplyUpdate]_vars

\* ------------------------------------------- the functions called alone

\* Characters of a text given to normalize_separators, at most.
MaxTextLen == 3
\* Characters of a text given to the NAS detector, at most.
MaxRawLen == 10

\* The sequences of at most n elements of A.
StringsOver(A, n) == UNION {[1..k -> A] : k \in 0..n}

\* The characters normalize_separators is called on: those it replaces, the
\* newline, a letter and the ASCII hyphen.
SepAlphabet == NBSP_SET \cup UNICODE_DASHES \cup HSPACE \cup {"NL", "a", "-"}

\* The characters of the texts the NAS detector is called on.
RawAlphabet == {"1", "AR2", "-"}

\* The values of the keys of a _source.
SourceValues ==
    {JNull, JStr(<<>>), JStr(<<"t">>), JStr(<<"u">>), JDict(<<>>),
     JDict([content |-> JNull]), JDict([content |-> JStr(<<>>)]),
     JDict([content |-> JStr(<<"u">>)])}

\* The _source objects get_text_from_source is called on: the primary field
\* missing, null or a string; attachment missing, null, a string or an
\* object, with or without content.
Sources ==
    {src \in UNION {[K -> SourceValues] : K \in SUBSET {"content", "attachment"}} :
        "content" \in DOMAIN src => src.content.t # "dict"}

\* Detector names and field maps target_field is called on.
DetectorNames ==
    {<<"N", "A", "S">>, <<"n", "a", "s">>, <<"N", "a", "s">>, <<"I", "D", "9">>,
     <<"A", " ", "D">>}
FieldMaps ==
    {<<>>,
     << <<<<"N", "A", "S">>, <<"s", "i", "n">>>> >>,
     << <<<<"I", "D", "9">>, <<"n", "a", "s", "_", "n", "o", "r", "m">>>> >>,
     << <<<<"A", " ", "D">>, <<>>>>, <<<<"n", "a", "s">>, <<"x">>>> >>}
Prefixes == {<<>>, field_prefix}

\* The calls of one function alone.
Calls ==
    [fn : {"get_text_from_source"}, src : Sources]
    \cup [fn : {"target_field"}, detector_name : DetectorNames, fmap : FieldMaps,
          prefix : Prefixes]
    \cup [fn : {"find"}, text : StringsOver(RawAlphabet, MaxRawLen)]
    \cup [fn : {"normalize_separators"}, s : StringsOver(SepAlphabet, MaxTextLen)]

\* Either main runs, with default settings on an index that holds the
\* document of the end-to-end scenario, or one function is called alone.
InitFn ==
    /\ \/ /\ InitMain({"none"},
                       [apply_updates : BOOLEAN, dedupe : {FALSE},
                        bulk_size : 1..MaxBulkSize, field_map : {<<>>}],
                       [docs : {{1}}, total : {1}], {"load"})
          /\ InitPureIdle
       \/ /\ InitMain({"none"},
                       [apply_updates : {FALSE}, dedupe : {FALSE},
                        bulk_size : {1}, field_map : {<<>>}],
                       [docs : {{1}}, total : {1}], {"off"})
          /\ call \in Calls
          /\ result = <<>>
    /\ InitStoreIdle

Call_get_text_from_source ==
    /\ call.fn = "get_text_from_source"
    /\ result = <<>>
    /\ result' = <<get_text_from_source(call.src, content_field, alt_content_field)>>
    /\ UNCHANGED <<call, runvars, storevars>>

Call_target_field ==
    /\ call.fn = "target_field"
    /\ result = <<>>
    /\ result' = <<target_field(call.detector_name, call.fmap, call.prefix)>>
    /\ UNCHANGED <<call, runvars, storevars>>

\* find of the built-in detector.
Call_find ==
    /\ call.fn = "find"
    /\ result = <<>>
    /\ result' = <<find(make_nas_detector, call.text)>>
    /\ UNCHANGED <<call, runvars, storevars>>

\* normalize_separators on s, and then on what it has returned.
Call_normalize_separators ==
    /\ call.fn = "normalize_separators"
    /\ Len(result) < 2
    /\ result' = Append(result, normalize_separators(IF result = <<>> THEN call.s
                                                     ELSE result[1]))
    /\ UNCHANGED <<call, runvars, storevars>>

NextFn ==
    \/ NextLoad
    \/ Call_get_text_from_source
    \/ Call_target_field
    \/ Call_find
    \/ Call_normalize_separators

SpecFn == InitFn /\ [][NextFn]_vars

\* ================================================================ claims

\* The concatenation of the sequences of a sequence.
RECURSIVE Flatten(_)
Flatten(seqs) == IF seqs = <<>> THEN <<>> ELSE Head(seqs) \o Flatten(Tail(seqs))

\* Whether a is b with some elements left out.
RECURSIVE IsSubseq(_, _)
IsSubseq(a, b) ==
    IF a = <<>> THEN TRUE
    ELSE IF b = <<>> THEN FALSE
    ELSE IF Head(a) = Head(b) THEN IsSubseq(Tail(a), Tail(b))
    ELSE IsSubseq(a, Tail(b))

\* Update operations of a sequence of bulk lines, and the _id of each.
OpsIn(lines) == Len(lines) \div 2
IdsOfLines(lines) == [i \in 1..OpsIn(lines) |-> lines[2 * i - 1].update._id]

CeilDiv(n, b) == (n + b - 1) \div b

\* The _id of the hits yielded, and of those among them that have a finding
\* and an _id.
YieldedIds == [i \in 1..Len(yielded) |-> HitId[yielded[i]]]
RECURSIVE IdsToUpdate(_)
IdsToUpdate(ys) ==
    IF ys = <<>> THEN <<>>
    ELSE (IF HitPairs[Head(ys)] # <<>> /\ HitId[Head(ys)] # ""
          THEN <<HitId[Head(ys)]>> ELSE <<>>) \o IdsToUpdate(Tail(ys))

\* One row for every finding of the hits ys, in order.
RECURSIVE AllFindingRows(_)
AllFindingRows(ys) ==
    IF ys = <<>> THEN <<>>
    ELSE LET h == Head(ys)
         IN  [k \in 1..Len(HitPairs[h]) |->
                 <<HitPairs[h][k][1], HitPairs[h][k][2], HitPath[h], HitId[h]>>]
             \o AllFindingRows(Tail(ys))

\* C1: with updates enabled and a batch size B >= 1, every bulk request
\* carries between 1 and B operations (none is empty), every request but the
\* last carries exactly B, and a run that ends without a failing store call
\* has made exactly ceil(N / B) requests for its N update operations.
C1_BulkBatches ==
    LET B == args.bulk_size
        N == OpsIn(built)
    IN  /\ \A i \in 1..Len(sent) :
            /\ Len(sent[i]) = 2 * OpsIn(sent[i])
            /\ OpsIn(sent[i]) >= 1
            /\ OpsIn(sent[i]) <= B
        /\ \A i \in 1..(Len(sent) - 1) : OpsIn(sent[i]) = B
        /\ (pc = "done" => Len(sent) = CeilDiv(N, B))

\* C1 witness: B = 2 and N = 5 give three requests of 2, 2 and 1 operations.
C1_Witness ==
    /\ pc = "done"
    /\ args.bulk_size = 2
    /\ OpsIn(built) = 5
    /\ Len(sent) = 3
    /\ <<OpsIn(sent[1]), OpsIn(sent[2]), OpsIn(sent[3])>> = <<2, 2, 1>>

\* C2: with updates enabled, as long as no store call has failed the lines
\* sent so far followed by the buffer are exactly the lines built, in the
\* order built, which is the order of the scan; when the run ends the buffer
\* is empty, every update built has been sent once, the updates sent are
\* those of the hits with a finding and an _id in scan order, and the
\* counter of updates equals the number of operations sent.
C2_SubmittedExactlyOnce ==
    args.apply_updates =>
        /\ (pc # "aborted" => Flatten(sent) \o bulk_lines = built)
        /\ IsSubseq(IdsOfLines(Flatten(sent)), YieldedIds)
        /\ (pc = "done" =>
                /\ bulk_lines = <<>>
                /\ Flatten(sent) = built
                /\ IdsOfLines(Flatten(sent)) = IdsToUpdate(yielded)
                /\ updates_count = OpsIn(Flatten(sent)))

\* C2 witness: a finished run that sent three updates in two requests.
C2_Witness ==
    /\ pc = "done"
    /\ args.apply_updates
    /\ args.bulk_size = 2
    /\ Len(sent) = 2
    /\ updates_count = 3

\* C3: without --apply-updates nothing is buffered, built or sent, whatever
\* was scanned, and every finding of the hits scanned is in the report: as a
\* row of its own without --dedupe, by its key with it.
C3_NoUpdatesUnlessEnabled ==
    ~args.apply_updates =>
        /\ bulk_lines = <<>>
        /\ built = <<>>
        /\ sent = <<>>
        /\ updates_count = 0
        /\ (~args.dedupe => csv = <<CsvHeader>> \o AllFindingRows(yielded))
        /\ \A k \in 1..Len(AllFindingRows(yielded)) :
            \E j \in 2..Len(csv) :
                SubSeq(csv[j], 1, 3) = SubSeq(AllFindingRows(yielded)[k], 1, 3)

\* C3 witness: a finished run without updates that reported findings of two
\* hits.
C3_Witness ==
    /\ pc = "done"
    /\ ~args.apply_updates
    /\ Len(yielded) >= 2
    /\ Len(csv) >= 3
    /\ sent = <<>>

\* C4: a scroll request is issued only after a response with a non-empty
\* batch and a token: once a response, the first or a later one, has an
\* empty batch (token or not) or no token, no request follows; and as the
\* store gives such a response in the end, the run ends.
C4_ScrollTerminates ==
    /\ [][requests > 0 /\ (hits = <<>> \/ scroll_id = 0) => requests' = requests]_vars
    /\ <>(pc \in {"done", "aborted"})

\* C4 witness: the scan has ended on an empty batch that came with a token.
C4_Witness ==
    /\ pc \in {"final", "done"}
    /\ requests >= 2
    /\ hits = <<>>
    /\ scroll_id # 0

\* The key of a report row, and the first hit yielded that has a finding
\* with that key.
RowKey(row) == SubSeq(row, 1, 3)
HasKey(h, key) ==
    \E k \in 1..Len(HitPairs[h]) : <<HitPairs[h][k][1], HitPairs[h][k][2], HitPath[h]>> = key
FirstWithKey(key) ==
    CHOOSE i \in 1..Len(yielded) :
        HasKey(yielded[i], key) /\ \A j \in 1..(i - 1) : ~HasKey(yielded[j], key)

\* C5: with --dedupe the report holds exactly one row for each {detector,
\* value, path} key found in the hits scanned, whatever the doc_id, and it
\* is the row of the first hit with that key; without it every finding has
\* a row of its own. The counter of rows counts the rows written.
C5_ReportDedupe ==
    /\ pairs_count = Len(csv) - 1
    /\ (args.dedupe =>
            /\ \A i, j \in 2..Len(csv) : i # j => RowKey(csv[i]) # RowKey(csv[j])
            /\ \A j \in 2..Len(csv) :
                /\ \E i \in 1..Len(yielded) : HasKey(yielded[i], RowKey(csv[j]))
                /\ csv[j][4] = HitId[yielded[FirstWithKey(RowKey(csv[j]))]]
            /\ \A k \in 1..Len(AllFindingRows(yielded)) :
                \E j \in 2..Len(csv) : RowKey(csv[j]) = RowKey(AllFindingRows(yielded)[k])
            /\ seen_csv = {RowKey(csv[j]) : j \in 2..Len(csv)})
    /\ (~args.dedupe => Len(csv) - 1 = Len(AllFindingRows(yielded)))

\* C5 witness: hits 1 and 2 have the same NAS value at the same path; with
\* --dedupe the one row for it is the row of hit 1.
C5_Witness ==
    /\ args.dedupe
    /\ Len(yielded) = 2 /\ yielded[1] = 1 /\ yielded[2] = 2 /\ pos = 2
    /\ Len(csv) = 3
    /\ csv[2] = <<make_nas_detector.name,
                  <<"1", "2", "3", "-", "4", "5", "6", "-", "7", "8", "9">>, Path_ab, "1">>
    /\ csv[3][1] = yaml_detector.name
    /\ pairs_count = 2

\* The target field of a pair, the values found for a field, and the place
\* of the first pair that gives value v to a field.
FieldOf(pair) == target_field(pair[1], fmap, field_prefix)
ValuesFor(pairs, field) ==
    {pairs[k][2] : k \in {k \in 1..Len(pairs) : FieldOf(pairs[k]) = field}}
FirstSeen(pairs, field, v) ==
    CHOOSE k \in 1..Len(pairs) :
        /\ FieldOf(pairs[k]) = field /\ pairs[k][2] = v
        /\ \A m \in 1..(k - 1) : ~(FieldOf(pairs[m]) = field /\ pairs[m][2] = v)

\* params.upd `up` groups the pairs by target field: one entry per field,
\* and in it every distinct value of the field once, in first-seen order.
GroupedRight(pairs, up) ==
    /\ \A i, j \in 1..Len(up) : i # j => up[i][1] # up[j][1]
    /\ {up[i][1] : i \in 1..Len(up)} = {FieldOf(pairs[k]) : k \in 1..Len(pairs)}
    /\ \A i \in 1..Len(up) :
        LET vals == up[i][2]
        IN  /\ \A a, b \in 1..Len(vals) : a # b => vals[a] # vals[b]
            /\ {vals[a] : a \in 1..Len(vals)} = ValuesFor(pairs, up[i][1])
            /\ \A a, b \in 1..Len(vals) :
                a < b => FirstSeen(pairs, up[i][1], vals[a]) < FirstSeen(pairs, up[i][1], vals[b])

\* C6: with --apply-updates, the step of main on a hit with a finding and an
\* _id builds exactly one update, for that _id, whose fields group the
\* findings by target field, each distinct value once in first-seen order;
\* the step on a hit without finding builds none.
C6_UpdateGrouping ==
    [][yielded' # yielded =>
        LET h == yielded'[Len(yielded')]
            pairs == HitPairs[h]
        IN  IF args.apply_updates /\ pairs # <<>> /\ HitId[h] # ""
            THEN /\ Len(built') = Len(built) + 2
                 /\ SubSeq(built', 1, Len(built)) = built
                 /\ built'[Len(built) + 1].update._id = HitId[h]
                 /\ GroupedRight(pairs, built'[Len(built) + 2].script.params.upd)
                 /\ bulk_lines' = bulk_lines \o SubSeq(built', Len(built) + 1, Len(built) + 2)
                 /\ updates_count' = updates_count + 1
            ELSE pairs = <<>> => built' = built /\ bulk_lines' = bulk_lines]_vars

\* C6 witness: the update of hit 2 under --field-map ID9=nas_norm has the one
\* field nas_norm with the NAS value, found twice, once, then the ID9 value.
C6_Witness ==
    /\ args.apply_updates
    /\ \E i \in 1..OpsIn(built) :
        /\ built[2 * i - 1].update._id = "2"
        /\ built[2 * i].script.params.upd =
            << << <<"n", "a", "s", "_", "n", "o", "r", "m">>,
                  << <<"1", "2", "3", "-", "4", "5", "6", "-", "7", "8", "9">>,
                     <<"1", "2", "3", "4", "5", "6", "7", "8", "9">> >> >> >>

\* Occurrences of v in a list.
Count(v, list) == Cardinality({i \in 1..Len(list) : list[i] = v})

\* C7: once the update has been applied, applying it again leaves the stored
\* document as it is: the document is what one application gives, every
\* list stored before is a prefix of the list stored now, every field of the
\* update exists and holds each value of the update, no more often than
\* once unless it was stored more often before, and nothing else is stored.
C7_AppendIfAbsentIdempotent ==
    applied >= 1 =>
        /\ stored = painless_update(stored0, upd)
        /\ painless_update(stored, upd) = stored
        /\ DOMAIN stored = DOMAIN stored0 \cup {upd[i][1] : i \in 1..Len(upd)}
        /\ \A f \in DOMAIN stored0 :
            /\ Len(stored[f]) >= Len(stored0[f])
            /\ SubSeq(stored[f], 1, Len(stored0[f])) = stored0[f]
        /\ \A i \in 1..Len(upd) :
            LET f == upd[i][1]
                before == IF f \in DOMAIN stored0 THEN stored0[f] ELSE <<>>
            IN  /\ \A k \in 1..Len(upd[i][2]) :
                    LET v == upd[i][2][k]
                    IN  Count(v, stored[f]) = IF Count(v, before) = 0 THEN 1
                                              ELSE Count(v, before)
                /\ \A k \in (Len(before) + 1)..Len(stored[f]) :
                    \E m \in 1..Len(upd[i][2]) : upd[i][2][m] = stored[f][k]
        /\ \A f \in DOMAIN stored0 \ {upd[i][1] : i \in 1..Len(upd)} : stored[f] = stored0[f]

\* C7 witness: applied twice, the update has created a field and has added
\* a value to a list that held one of its values already.
C7_Witness ==
    /\ applied = 2
    /\ DOMAIN stored # DOMAIN stored0
    /\ \E i \in 1..Len(upd) :
        /\ upd[i][1] \in DOMAIN stored0
        /\ \E k \in 1..Len(upd[i][2]) : Count(upd[i][2][k], stored0[upd[i][1]]) > 0
        /\ Len(stored[upd[i][1]]) > Len(stored0[upd[i][1]])

\* C8: a bulk response with a success status that reports item errors clears
\* the buffer and lets main go on where a response without errors would;
\* and in a run with such a response, as long as no store call has failed,
\* every line built is in one request or in the buffer, once.
C8_ItemErrorsNotFatal ==
    /\ [](item_errors /\ pc # "aborted" => Flatten(sent) \o bulk_lines = built)
    /\ [][Len(sent') > Len(sent) /\ http'.errors =>
            /\ bulk_lines' = <<>>
            /\ pc' = (IF pc = "flush" THEN "yield" ELSE "done")
            /\ out_open' = (pc = "flush")]_vars

\* C8 witness: after a response with item errors more hits were scanned and
\* reported and a later request was sent and answered without errors.
C8_Witness ==
    /\ item_errors
    /\ pc = "done"
    /\ last_req.kind = "bulk"
    /\ ~http.errors
    /\ Len(sent) = 2
    /\ Len(csv) >= 3

\* C9 as claimed: after a response with a status that is not 2xx the run is
\* aborted and the report file is closed.
C9_NonSuccessIsFatal ==
    (http.status # 0 /\ ~(200 <= http.status /\ http.status < 300)) =>
        (pc = "aborted" /\ ~out_open)

\* Whether the primary text and the fallback text of hit h are both empty
\* or absent.
BothTextsEmpty(h) ==
    LET src == HitSource[h]
        alt == WalkPath(JDict(src), alt_content_field)
    IN  /\ \/ content_field \notin DOMAIN src
           \/ src[content_field].t = "null"
           \/ src[content_field] = JStr(<<>>)
        /\ \/ ~HasPath(JDict(src), alt_content_field)
           \/ alt.t = "null"
           \/ alt = JStr(<<>>)

\* C10: the step of main on a hit whose primary and fallback texts are both
\* empty or absent writes no row, builds and buffers no update, sends
\* nothing, leaves the seen keys and the counters of rows and updates as
\* they are, counts the hit as scanned and goes on with the next hit.
C10_EmptyDocumentSkipped ==
    [][yielded' # yielded /\ BothTextsEmpty(yielded'[Len(yielded')]) =>
        /\ csv' = csv
        /\ seen_csv' = seen_csv
        /\ bulk_lines' = bulk_lines
        /\ built' = built
        /\ sent' = sent
        /\ pairs_count' = pairs_count
        /\ updates_count' = updates_count
        /\ docs_count' = docs_count + 1
        /\ pc' = "yield"]_vars

\* C10 witness: hit 3, without text, has been skipped while the buffer held
\* an update and the seen keys held a key.
C10_Witness ==
    /\ Len(yielded) >= 2
    /\ yielded[Len(yielded)] = 3
    /\ pos > 0 /\ hits[pos] = 3
    /\ bulk_lines # <<>>
    /\ seen_csv # {}
    /\ docs_count = Len(yielded)

\* C12 as claimed: when the detectors of --detectors-yaml cannot be loaded,
\* main goes on to the search with the built-in detector alone.
C12_LoadFailureNotFatal ==
    (detectors_yaml \in {"no_pyyaml", "unparseable", "missing"} /\ pc # "load") =>
        /\ registry = <<make_nas_detector>>
        /\ (pc = "search" \/ requests > 0)

\* The text of a source as claimed: the primary field when it is a non-empty
\* string, and else the string at the end of the fallback path, empty when a
\* part of the path is missing or the value is null.
PrimaryText(src) ==
    IF content_field \in DOMAIN src /\ src[content_field].t = "str"
    THEN src[content_field].v ELSE <<>>
FallbackText(src) ==
    IF /\ "attachment" \in DOMAIN src
       /\ src.attachment.t = "dict"
       /\ "content" \in DOMAIN src.attachment.v
       /\ src.attachment.v.content.t = "str"
    THEN src.attachment.v.content.v ELSE <<>>

\* C11 as claimed: get_text_from_source returns the primary text when it is
\* present and not empty, and else the fallback value.
C11_TextFallback ==
    (call.fn = "get_text_from_source" /\ result # <<>>) =>
        result[1] = IF PrimaryText(call.src) # <<>> THEN PrimaryText(call.src)
                    ELSE FallbackText(call.src)

\* The name lower-cased, its spaces replaced by underscores.
Converted(name) ==
    [i \in 1..Len(name) |-> IF name[i] = " " THEN "_" ELSE LowerChar(name[i])]
\* The field the explicit map gives to a name that is one of its keys.
Mapped(fm, name) == fm[CHOOSE i \in 1..Len(fm) : fm[i][1] = name][2]
Field_nas_norm == <<"n", "a", "s", "_", "n", "o", "r", "m">>

\* C13, amended: target_field gives the field of the explicit map when the
\* name is one of its keys, whatever the other rules give; otherwise
\* nas_norm, without prefix, for every name whose converted form is "nas"
\* (NAS, and nas or Nas as well), and the prefix followed by the converted
\* name for every other name.
C13_TargetField ==
    (call.fn = "target_field" /\ result # <<>>) =>
        result[1] =
            IF \E i \in 1..Len(call.fmap) : call.fmap[i][1] = call.detector_name
            THEN Mapped(call.fmap, call.detector_name)
            ELSE IF Converted(call.detector_name) = <<"n", "a", "s">>
                 THEN Field_nas_norm
                 ELSE call.prefix \o Converted(call.detector_name)

\* C13 witness: the name Nas, which no map holds, has been given nas_norm
\* under the prefix pii.
C13_Witness ==
    /\ call.fn = "target_field"
    /\ call.detector_name = <<"N", "a", "s">>
    /\ call.fmap = <<>>
    /\ call.prefix = field_prefix
    /\ result = <<Field_nas_norm>>

\* C13 as claimed: only the name NAS gives nas_norm; every other name that
\* is not a key of the map gives the prefix followed by the converted name.
C13_OnlyNASIsSpecial ==
    (call.fn = "target_field" /\ result # <<>>) =>
        result[1] =
            IF \E i \in 1..Len(call.fmap) : call.fmap[i][1] = call.detector_name
            THEN Mapped(call.fmap, call.detector_name)
            ELSE IF call.detector_name = <<"N", "A", "S">>
                 THEN Field_nas_norm
                 ELSE call.prefix \o Converted(call.detector_name)

\* The values each detector finds in the normalised text of each hit, left
\* to right.
FoundBy ==
    [h \in DOMAIN Hits |->
        [d \in 1..Len(detectors) |->
            IF HitText[h] = <<>> THEN <<>>
            ELSE find(detectors[d], normalize_separators(HitText[h]))]]

\* The rows of hit h under the first n detectors: detector after detector
\* in the order of the registry, and for each detector its values in match
\* order.
RowsUnder ==
    [n \in 0..Len(detectors) |->
        [h \in DOMAIN Hits |->
            Flatten([d \in 1..n |->
                        [k \in 1..Len(FoundBy[h][d]) |->
                            <<detectors[d].name, FoundBy[h][d][k], HitPath[h], HitId[h]>>]])]]

\* The registry holds the first detectors of `detectors`.
RowsOfHit(h) == RowsUnder[Len(registry)][h]

\* The rows of the hits yielded, in the order they were yielded.
RowsInScanOrder == Flatten([i \in 1..Len(yielded) |-> RowsOfHit(yielded[i])])

\* C14: the report is the header row followed by rows in scan order: hit
\* after hit as yielded, within a hit detector after detector in registry
\* order, within a detector match after match; with --dedupe rows are left
\* out and the others keep that order, without it no row is left out.
C14_ReportOrder ==
    pc \notin {"load", "off"} =>
        /\ (out_open \/ pc \in {"done", "aborted"}) => Len(csv) >= 1 /\ csv[1] = CsvHeader
        /\ IsSubseq(SubSeq(csv, 2, Len(csv)), RowsInScanOrder)
        /\ (~args.dedupe => SubSeq(csv, 2, Len(csv)) = RowsInScanOrder)

\* C14 witness: with --dedupe hit 2 and then hit 1 were scanned; of their
\* four rows the report holds the first and the last of hit 2, in that order.
C14_Witness ==
    /\ args.dedupe
    /\ yielded = <<2, 1>>
    /\ pos = 2
    /\ Len(RowsInScanOrder) = 4
    /\ Len(csv) = 3
    /\ csv[2] = RowsInScanOrder[1]
    /\ csv[3] = RowsInScanOrder[3]
    /\ csv[2][1] = make_nas_detector.name
    /\ csv[3][1] = yaml_detector.name

\* The decimal digits of a raw match, as ASCII digits, in order.
Fold(raw) ==
    LET ds == SelectSeq(raw, IsNd) IN [i \in 1..Len(ds) |-> DigitValue(ds[i])]
\* Nine digits as DDD-DDD-DDD.
Format9(ds) ==
    <<ds[1], ds[2], ds[3], "-", ds[4], ds[5], ds[6], "-", ds[7], ds[8], ds[9]>>
\* The matches of the NAS pattern in the text of the call, and those of
\* them that fold to nine digits.
RawMatches == finditer("nas", call.text, 1)
NineDigitMatches == {k \in 1..Len(RawMatches) : Len(Fold(RawMatches[k])) = 9}
Value_123_456_789 == <<"1", "2", "3", "-", "4", "5", "6", "-", "7", "8", "9">>

\* C15: the built-in detector gives one value for each raw match that folds
\* to exactly nine digits, those digits as DDD-DDD-DDD, and none for a match
\* that folds to fewer or more; and in a run with default settings on the
\* document with _id 1, content "SIN 123 456 789 here" and path /a/b, the
\* rows of the report are the header and (NAS, 123-456-789, /a/b, 1), and
\* with --apply-updates the one update built is for _id 1 with the one
\* field nas_norm and the values [123-456-789].
C15_NasNormalizer ==
    /\ (call.fn = "find" /\ result # <<>>) =>
        /\ Len(result[1]) = Cardinality(NineDigitMatches)
        /\ \A k \in NineDigitMatches :
            result[1][1 + Cardinality({m \in NineDigitMatches : m < k})]
                = Format9(Fold(RawMatches[k]))
    /\ (pc \notin {"off", "load"} /\ call.fn = "none") =>
        /\ csv = <<CsvHeader>> \o
                 [i \in 1..Len(yielded) |-> <<<<"N", "A", "S">>, Value_123_456_789, Path_ab, "1">>]
        /\ pairs_count = Len(yielded)
        /\ OpsIn(built) = IF args.apply_updates THEN Len(yielded) ELSE 0
        /\ \A i \in 1..OpsIn(built) :
            /\ built[2 * i - 1].update._id = "1"
            /\ built[2 * i].script.params.upd = << <<Field_nas_norm, <<Value_123_456_789>>>> >>

\* C15 witness: a text of ten characters with a separator and a digit of
\* another script has given 111-121-111.
C15_Witness ==
    /\ call.fn = "find"
    /\ call.text = <<"1", "1", "1", "-", "1", "AR2", "1", "1", "1", "1">>
    /\ result = << << <<"1", "1", "1", "-", "1", "2", "1", "-", "1", "1", "1">> >> >>

\* What is left of a text without its spaces of any kind but the newline,
\* each Unicode dash read as the ASCII hyphen.
IsKept(ch) == ch \notin NBSP_SET \cup HSPACE
Skeleton(s) ==
    LET kept == SelectSeq(s, IsKept)
    IN  [i \in 1..Len(kept) |-> IF kept[i] \in UNICODE_DASHES THEN "-" ELSE kept[i]]

\* C16: normalize_separators applied to its own result returns that result,
\* and it keeps every newline of s where it is among the characters it does
\* not replace.
C16_NormalizeIdempotent ==
    call.fn = "normalize_separators" =>
        /\ Len(result) = 2 => result[2] = result[1]
        /\ Len(result) >= 1 =>
            /\ Skeleton(result[1]) = Skeleton(call.s)
            /\ Cardinality({i \in 1..Len(result[1]) : result[1][i] = "NL"})
                = Cardinality({i \in 1..Len(call.s) : call.s[i] = "NL"})

\* C16 witness: a text with a zero-width space, a tab and a newline has
\* been normalised twice, and the first result differs from the text.
C16_Witness ==
    /\ call.fn = "normalize_separators"
    /\ call.s = <<"ZWSP", "TAB", "NL">>
    /\ result = << <<" ", "NL">>, <<" ", "NL">> >>

\* C17 as claimed: a hit is yielded only from a response that has hits and
\* a token, and a scroll request is issued only after such a response, with
\* its token.
C17_YieldOnlyWithToken ==
    /\ [](pos > 0 => (hits # <<>> /\ scroll_id # 0))
    /\ [][(requests' > requests /\ requests > 0) =>
            (hits # <<>> /\ scroll_id # 0 /\ last_req'.token = scroll_id)]_vars

\* Whether every hit yielded is fully processed: its rows are in the report
\* (with --dedupe, a row for each of its keys), its update is built and is
\* in a request or in the buffer, and no flush is due.
FullyProcessed ==
    /\ IF args.dedupe
       THEN {RowKey(csv[j]) : j \in 2..Len(csv)}
                = {RowKey(RowsInScanOrder[k]) : k \in 1..Len(RowsInScanOrder)}
       ELSE SubSeq(csv, 2, Len(csv)) = RowsInScanOrder
    /\ IdsOfLines(built) = IF args.apply_updates THEN IdsToUpdate(yielded) ELSE <<>>
    /\ Flatten(sent) \o bulk_lines = built
    /\ OpsIn(bulk_lines) < args.bulk_size

\* C18: main takes a hit from search_scroll only when every hit taken before
\* is fully processed, the flush it has triggered included; and search_scroll
\* issues a scroll request only when every hit of every page received has
\* been taken and is fully processed.
C18_Sequential ==
    /\ [][yielded' # yielded => FullyProcessed]_vars
    /\ [][(requests' > requests /\ requests > 0) =>
            (pos = Len(hits) /\ yielded = returned /\ FullyProcessed)]_vars

\* C18 witness: two pages; each hit of the first has triggered a flush, and
\* the second page was asked for after both flushes, and a hit of it taken.
C18_Witness ==
    /\ args.apply_updates
    /\ args.bulk_size = 1
    /\ requests = 2
    /\ Len(yielded) = 3
    /\ pos = 1
    /\ Len(sent) = 3

\* The hits yielded that have a finding and an _id, in order.
HitsToUpdate == SelectSeq(yielded, LAMBDA h : HitPairs[h] # <<>> /\ HitId[h] # "")

\* C19: with --apply-updates the updates built are, in order, one for every
\* hit yielded that has a finding and an _id, each with all the findings of
\* its hit grouped by field, whether --dedupe is given or not and whatever
\* rows it has left out of the report.
C19_DedupeLeavesUpdates ==
    (args.apply_updates /\ pc \notin {"load", "off"}) =>
        /\ OpsIn(built) = Len(HitsToUpdate)
        /\ \A i \in 1..OpsIn(built) :
            /\ built[2 * i - 1].update._id = HitId[HitsToUpdate[i]]
            /\ GroupedRight(HitPairs[HitsToUpdate[i]], built[2 * i].script.params.upd)

\* C19 witness: with --dedupe and --apply-updates, hit 1 came after hit 2,
\* which has its key: hit 1 has no row in the report and has its update.
C19_Witness ==
    /\ args.dedupe
    /\ args.apply_updates
    /\ args.field_map = <<>>
    /\ yielded = <<2, 1>>
    /\ pos = 2
    /\ \A j \in 2..Len(csv) : csv[j][4] = "2"
    /\ OpsIn(built) = 2
    /\ built[3].update._id = "1"
    /\ built[4].script.params.upd = << <<Field_nas_norm, <<Value_123_456_789>>>> >>

\* C20: the hits yielded are, in order, the hits of the responses received,
\* less those of the latest batch that are still to be taken; when the scan
\* has ended they are all the hits received, each once, those of a last
\* response with hits and no token included; and docs_count is their number.
C20_YieldedExactlyOnce ==
    pc \notin {"load", "off"} =>
        /\ Len(yielded) = Len(returned) - (Len(hits) - pos)
        /\ yielded = SubSeq(returned, 1, Len(yielded))
        /\ (pc \in {"final", "done"} => yielded = returned)
        /\ docs_count = Len(yielded)

\* C20 witness: a run has ended after two responses, the last with hits and
\* without token, and every hit of both was yielded.
C20_Witness ==
    /\ pc = "done"
    /\ requests = 2
    /\ scroll_id = 0
    /\ hits # <<>>
    /\ Len(returned) > Len(hits)
    /\ yielded = returned
    /\ docs_count = Len(returned)

====
